---- MODULE Spec2Model ----
(***************************************************************************)
(* Model of the /analyze batch pipeline of backend_wcag (src/app/app.py):  *)
(* input validation, the ThreadPoolExecutor fan-out of process_url over    *)
(* the URLs, the three collaborator calls of a Job Unit (Scanner, Advisor, *)
(* Store), the as_completed collector and the final response.              *)
(***************************************************************************)
EXTENDS Integers, Sequences, FiniteSets, TLC

\* ------------------------------------------------------------------ bounds
MaxUrls == 3
MaxWorkers == 2
MaxLines == 3

Urls == {"A", "B"}

\* ------------------------------------------------------------ python values
(* The value of request.json.get('urls'): None when the key is absent, or a *)
(* string, a dict or a list; items is the content (characters, keys, URLs). *)
SeqsUpTo(S, n) == UNION {[1..k -> S] : k \in 0..n}

RequestValues ==
    {[tag |-> "none", items |-> <<>>]}
        \cup {[tag |-> t, items |-> s] : t \in {"str", "dict"}, s \in SeqsUpTo({"A"}, 1)}
        \cup {[tag |-> "list", items |-> s] : s \in SeqsUpTo(Urls, MaxUrls)}

\* Python truth value of v: None and empty containers are falsy.
Truthy(v) == v.tag # "none" /\ Len(v.items) > 0

\* isinstance(v, list)
IsList(v) == v.tag = "list"

\* The validation without its emptiness test.
InvalidInputTypeOnly(v) == ~IsList(v)

\* app.py:76  `if not urls or not isinstance(urls, list)`
InvalidInput(v) == ~Truthy(v) \/ ~IsList(v)

\* ------------------------------------------------------- attribute lookups
\* Attributes of the MongoService instance (db_service.py) and of the
\* SeleniumService instance (selenium_service.py).
MongoServiceAttrs ==
    {"client", "db", "collection", "insert_result", "get_all_records",
     "get_record_by_id", "get_records_by_domain"}

SeleniumServiceAttrs == {"driver_path", "chrome_options", "analyze_url"}

\* Evaluating obj.name succeeds iff the object has the attribute; the
\* builtin Exception always resolves.
HasAttr(obj, name) ==
    CASE obj = "mongo_service" -> name \in MongoServiceAttrs
      [] obj = "selenium_service" -> name \in SeleniumServiceAttrs
      [] OTHER -> TRUE

\* isinstance(exc, cls) for the exception kinds of the model.
IsInstance(exc, cls) == cls = "Exception" \/ exc = cls

\* The except clauses of process_url, in source order.
Handlers ==
    << [obj |-> "mongo_service", cls |-> "MongoInsertError", code |-> "DB_ERROR"],
       [obj |-> "selenium_service", cls |-> "SeleniumError", code |-> "ANALYSIS_ERROR"],
       [obj |-> "builtins", cls |-> "Exception", code |-> "UNEXPECTED_ERROR"] >>

\* ------------------------------------------------------------ future values
NoFuture == [kind |-> "none"]

\* A failure dict returned as the tuple (dict, 500).
FailureTuple(url, code) ==
    [kind |-> "return", tuple |-> TRUE, value |-> [url |-> url, code |-> code]]

Raised(exc) == [kind |-> "raise", exc |-> exc]

(* Python matches a raised exception against the except clauses in order;   *)
(* the clause's class expression is evaluated first, and an error raised by *)
(* that evaluation replaces the exception and leaves the try statement.     *)
RECURSIVE HandleException(_, _, _)
HandleException(url, exc, k) ==
    IF k > Len(Handlers) THEN Raised(exc)
    ELSE IF ~HasAttr(Handlers[k].obj, Handlers[k].cls) THEN Raised("AttributeError")
    ELSE IF IsInstance(exc, Handlers[k].cls) THEN FailureTuple(url, Handlers[k].code)
    ELSE HandleException(url, exc, k + 1)

\* ------------------------------------------------------------- the Job Unit
\* openai_service.py:34  def generate_suggestions(violations, url)
GenerateSuggestionsParams == 2
\* app.py:92  generate_suggestions(violations)
GenerateSuggestionsArgs == 1

\* A call binds its positional arguments iff their number is the number of
\* parameters (none has a default); otherwise Python raises TypeError.
CallBinds(args, params) == args = params

\* A Job Unit before process_url starts (the future of executor.submit).
NewUnit(url) ==
    [url |-> url, st |-> "Pending", scan |-> "none", adv |-> "none",
     sto |-> "none", ins |-> 0, unique_id |-> 0,
     suggestions |-> [kind |-> "none"], fut |-> NoFuture]

\* Finish with the unit put back in line to be run again.
FinishAndRetry(u, f) == [u EXCEPT !.st = "Pending", !.fut = f]

\* The unit ends: the future holds what process_url returned or raised.
Finish(u, f) == [u EXCEPT !.st = "Done", !.fut = f]

\* generate_suggestions catches every error of the OpenAI call itself and
\* returns {"error": ...} in place of {"violations": [...]}.
SuggestionsOf(ok) ==
    IF ok THEN [kind |-> "violations"] ELSE [kind |-> "error"]

\* app.py:109-115, the summary dict returned on success (not a tuple).
SuccessSummary(u, id) ==
    [kind |-> "return", tuple |-> FALSE,
     value |-> [url |-> u.url, unique_id |-> u.unique_id, inserted_id |-> id,
                suggestions |-> u.suggestions]]

\* AfterScanner with the insertion moved before the suggestions are asked for.
AfterScannerInsertsFirst(u, ok, uuid) ==
    IF ~ok
    THEN Finish([u EXCEPT !.scan = "fail"],
                HandleException(u.url, "WebDriverException", 1))
    ELSE LET v == [u EXCEPT !.scan = "ok", !.unique_id = uuid, !.ins = @ + 1]
         IN IF CallBinds(GenerateSuggestionsArgs, GenerateSuggestionsParams)
            THEN [v EXCEPT !.st = "Advising"]
            ELSE Finish([v EXCEPT !.adv = "call_error"],
                        HandleException(u.url, "TypeError", 1))

\* process_url from the return (or error) of selenium_service.analyze_url up
\* to the call of generate_suggestions.
AfterScanner(u, ok, uuid) ==
    IF ~ok
    THEN Finish([u EXCEPT !.scan = "fail"],
                HandleException(u.url, "WebDriverException", 1))
    ELSE LET v == [u EXCEPT !.scan = "ok", !.unique_id = uuid]
         IN IF CallBinds(GenerateSuggestionsArgs, GenerateSuggestionsParams)
            THEN [v EXCEPT !.st = "Advising"]
            ELSE Finish([v EXCEPT !.adv = "call_error"],
                        HandleException(u.url, "TypeError", 1))

\* process_url from the return of generate_suggestions (ok: the OpenAI call
\* answered) up to the call of mongo_service.insert_result.
AfterAdvisor(u, ok) ==
    [u EXCEPT !.adv = IF ok THEN "ok" ELSE "fail",
              !.suggestions = SuggestionsOf(ok),
              !.st = "Persisting"]

\* process_url from the return (or error) of insert_result to its end.
AfterStore(u, ok, id) ==
    IF ok
    THEN LET v == [u EXCEPT !.sto = "ok", !.ins = @ + 1]
         IN Finish(v, SuccessSummary(v, id))
    ELSE Finish([u EXCEPT !.sto = "fail"],
                HandleException(u.url, "PyMongoError", 1))

\* One step of process_url: the collaborator call in flight returns (ok) or
\* raises, and the code runs to the next collaborator call or to the end.
StepUnit(u, ok, uuid, id) ==
    CASE u.st = "Scanning" -> AfterScanner(u, ok, uuid)
      [] u.st = "Advising" -> AfterAdvisor(u, ok)
      [] u.st = "Persisting" -> AfterStore(u, ok, id)
      [] OTHER -> u

InFlightStates == {"Scanning", "Advising", "Persisting"}

\* ---------------------------------------------------------------- collector
\* app.py:142-153: what the collector appends for one completed future.
\* The collector with an except branch that appends nothing.
CollectFutureDropsErrors(f) ==
    IF f.kind = "raise"
    THEN [appended |-> <<>>, raised |-> FALSE]
    ELSE [appended |-> <<f.value>>, raised |-> FALSE]

\* The collector reporting an escaped error under the code of process_url's
\* last handler.
CollectFutureUnexpected(f) ==
    IF f.kind = "raise"
    THEN [appended |-> <<[code |-> "UNEXPECTED_ERROR"]>>, raised |-> FALSE]
    ELSE [appended |-> <<f.value>>, raised |-> FALSE]

\* The collector without its except branch: the error of future.result()
\* leaves the loop.
CollectFutureReraises(f) ==
    IF f.kind = "raise"
    THEN [appended |-> <<>>, raised |-> TRUE]
    ELSE [appended |-> <<f.value>>, raised |-> FALSE]

\* appended: the entries added to results_summary; raised: an error leaves
\* the loop.
CollectFuture(f) ==
    IF f.kind = "raise"
    THEN [appended |-> <<[code |-> "PROCESSING_ERROR"]>>, raised |-> FALSE]
    ELSE IF f.tuple
    THEN [appended |-> <<f.value>>, raised |-> FALSE]
    ELSE [appended |-> <<f.value>>, raised |-> FALSE]

\* -------------------------------------------------------------- thread pool
\* A pool that starts a thread for every submission, whatever the cap.
AdjustThreadCountNoCap(n, idle, cap) ==
    IF idle > 0 THEN [threads |-> n, idle |-> idle - 1]
    ELSE [threads |-> n + 1, idle |-> idle]

\* ThreadPoolExecutor._adjust_thread_count on submit: an idle worker is
\* reused, otherwise a thread is started while fewer than cap exist.
AdjustThreadCount(n, idle, cap) ==
    IF idle > 0 THEN [threads |-> n, idle |-> idle - 1]
    ELSE IF n < cap THEN [threads |-> n + 1, idle |-> idle]
    ELSE [threads |-> n, idle |-> idle]

\* as_completed is exhausted: every future was yielded.
LoopDone(fs, y) == \A i \in 1..Len(fs) : i \in y

\* executor.__exit__ -> shutdown(wait=True): every work item ran to its end.
Joined(fs) == \A i \in 1..Len(fs) : fs[i].st = "Done"

\* A handler that answers at the first collected outcome, without joining
\* the executor.
MayReturnAtFirst(pc, fs, y) == pc = "collect" /\ y # {}

\* analyze() leaves the with block: the loop ended (or an error left it) and
\* the executor was joined.
MayReturn(pc, fs, y) ==
    /\ pc = "raising" \/ (pc = "collect" /\ LoopDone(fs, y))
    /\ Joined(fs)

\* A waiter whose list of finished futures is read from its newest end.
WaiterPopNewest(wf) == [next |-> wf[Len(wf)], rest |-> SubSeq(wf, 1, Len(wf) - 1)]

\* as_completed takes waiter.finished_futures, reverses it and pops from its
\* end: the future that finished first comes first.
WaiterPop(wf) == [next |-> Head(wf), rest |-> Tail(wf)]

\* The Job Units a worker thread is running.
Running(fs) == {i \in 1..Len(fs) : fs[i].st \in InFlightStates}

\* -------------------------------------------------------- Suggestion Parser
(* A text is a sequence of lines and a line a sequence of tokens: the tags  *)
(* the parser looks for, the English tag names, a blank and plain words.    *)
ProblemaTag == "Problema:"
SolucionTag == "Solución:"
EjemploTag == "Ejemplo de Código:"

ParserTags == {ProblemaTag, SolucionTag, EjemploTag}
EnglishTags == {"Problem:", "Solution:"}

\* What a line may begin with, and what may follow.
LineStarts == {<<>>} \cup {<<t>> : t \in ParserTags \cup EnglishTags}
LineBodies == {<<>>, <<" ", "x", " ">>, <<"y", ProblemaTag>>}
Lines == {p \o b : p \in LineStarts, b \in LineBodies}
\* suggestions_text.split("\n") has at least one line.
Texts == UNION {[1..n -> Lines] : n \in 1..MaxLines}

\* line.startswith(tag)
StartsWith(line, tag) == Len(line) >= 1 /\ line[1] = tag

\* line.replace(tag, ""): every occurrence of tag is removed.
Replace(line, tag) == SelectSeq(line, LAMBDA t : t # tag)

\* lstrip() in place of strip(): only leading blanks are removed.
RECURSIVE StripLeft(_)
StripLeft(line) ==
    IF line # <<>> /\ Head(line) = " " THEN StripLeft(Tail(line)) ELSE line

\* line.strip(): leading and trailing blanks are removed.
RECURSIVE Strip(_)
Strip(line) ==
    IF line = <<>> THEN line
    ELSE IF Head(line) = " " THEN Strip(Tail(line))
    ELSE IF line[Len(line)] = " " THEN Strip(SubSeq(line, 1, Len(line) - 1))
    ELSE line

\* The dict {} and the assignment d[k] = v.
EmptyDict == [k \in {} |-> <<>>]
Put(d, k, v) == [x \in DOMAIN d \cup {k} |-> IF x = k THEN v ELSE d[x]]

\* The loop body without `current_suggestion = {}` after the append.
ParseLineKeepsCurrent(cur, sug, line) ==
    IF StartsWith(line, ProblemaTag)
    THEN [cur |-> Put(cur, "problema", Strip(Replace(line, ProblemaTag))),
          sug |-> sug]
    ELSE IF StartsWith(line, SolucionTag)
    THEN [cur |-> Put(cur, "solucion", Strip(Replace(line, SolucionTag))),
          sug |-> sug]
    ELSE IF StartsWith(line, EjemploTag)
    THEN LET c == Put(cur, "ejemplo_codigo", Strip(Replace(line, EjemploTag)))
         IN [cur |-> c, sug |-> Append(sug, c)]
    ELSE [cur |-> cur, sug |-> sug]

\* The loop body with the append made on the Solución line as well.
ParseLineAppendsOnSolucion(cur, sug, line) ==
    IF StartsWith(line, ProblemaTag)
    THEN [cur |-> Put(cur, "problema", Strip(Replace(line, ProblemaTag))),
          sug |-> sug]
    ELSE IF StartsWith(line, SolucionTag)
    THEN LET c == Put(cur, "solucion", Strip(Replace(line, SolucionTag)))
         IN [cur |-> EmptyDict, sug |-> Append(sug, c)]
    ELSE IF StartsWith(line, EjemploTag)
    THEN LET c == Put(cur, "ejemplo_codigo", Strip(Replace(line, EjemploTag)))
         IN [cur |-> EmptyDict, sug |-> Append(sug, c)]
    ELSE [cur |-> cur, sug |-> sug]

\* openai_service.py:22-29: the body of the loop over the lines, from the
\* in-progress entry cur and the list sug to their new values.
ParseLine(cur, sug, line) ==
    IF StartsWith(line, ProblemaTag)
    THEN [cur |-> Put(cur, "problema", Strip(Replace(line, ProblemaTag))),
          sug |-> sug]
    ELSE IF StartsWith(line, SolucionTag)
    THEN [cur |-> Put(cur, "solucion", Strip(Replace(line, SolucionTag))),
          sug |-> sug]
    ELSE IF StartsWith(line, EjemploTag)
    THEN LET c == Put(cur, "ejemplo_codigo", Strip(Replace(line, EjemploTag)))
         IN [cur |-> EmptyDict, sug |-> Append(sug, c)]
    ELSE [cur |-> cur, sug |-> sug]

\* parse_suggestions_to_json as a function of the lines: the list it returns
\* under "violations".
RECURSIVE ParseFrom(_, _, _)
ParseFrom(cur, sug, lines) ==
    IF lines = <<>> THEN sug
    ELSE LET r == ParseLine(cur, sug, Head(lines))
         IN ParseFrom(r.cur, r.sug, Tail(lines))

ParseSuggestions(lines) == ParseFrom(EmptyDict, <<>>, lines)

\* ------------------------------------------------------------------- state
\* ---------------------------------------------------- concurrent batch calls
\* The batch calls that run at the same time, each in its own request thread.
Calls == {1, 2}

\* One summary list, kept at module level, for all the calls.
SummaryShared(c) == 1

\* app.py:83: results_summary is a local of analyze(), a new list per call.
SummaryOf(c) == c

\* The list of n URLs a concurrent call is asked to scan.
UrlList(n) == [k \in 1..n |-> IF k % 2 = 1 THEN "A" ELSE "B"]

NoResponse == [status |-> "none"]

\* The uuid4 token drawn for unit i of call c (selenium_service.py:30): a
\* value no other unit of any call draws.
TokenOf(c, i) == (c - 1) * MaxUrls + i

\* A call that was not made.
NoCall ==
    [pc |-> "idle", urls |-> <<>>, futures |-> <<>>, work_queue |-> <<>>,
     num_threads |-> 0, idle_semaphore |-> 0, yielded |-> {},
     response |-> NoResponse]

VARIABLES
    urls,              \* request.json.get('urls')
    max_workers,       \* the configured cap
    mainpc,            \* position of the request handler
    futures,           \* the list `futures`: one Job Unit per submitted URL
    work_queue,        \* executor._work_queue: indices of queued units
    num_threads,       \* len(executor._threads)
    idle_semaphore,    \* executor._idle_semaphore
    finished,          \* as_completed: futures found finished at its start
    waiter_finished,   \* as_completed: waiter.finished_futures, in order
    yielded,           \* indices of the futures already collected
    results_summary,   \* the list results_summary
    store,             \* the documents inserted in the collection
    uuids,             \* number of uuid4 tokens drawn
    response,          \* what analyze() returned
    done_order,        \* the unit indices in the order their futures completed
    store_down,        \* the Store is out of service: every insertion fails
    text,              \* parser: the lines of suggestions_text
    line_no,           \* parser: the index of the next line of the loop
    current_suggestion,\* parser: the in-progress entry
    suggestions,       \* parser: the list of emitted entries
    parser_pc,         \* parser: "idle", "loop" or "returned"
    calls,             \* concurrent calls: the locals of each analyze() call
    summaries          \* concurrent calls: the results_summary lists

vars == <<urls, max_workers, mainpc, futures, work_queue, num_threads,
          idle_semaphore, finished, waiter_finished, yielded,
          results_summary, store, uuids, response, done_order, store_down,
          text, line_no, current_suggestion, suggestions, parser_pc,
          calls, summaries>>

\* The state of one call of parse_suggestions_to_json.
parserVars == <<text, line_no, current_suggestion, suggestions, parser_pc>>

\* The state of one batch call.
batchVars == <<urls, max_workers, mainpc, futures, work_queue, num_threads,
               idle_semaphore, finished, waiter_finished, yielded,
               results_summary, store, uuids, response, done_order, store_down>>

\* The state of the batch calls that run at the same time.
multiVars == <<calls, summaries>>

\* No concurrent calls are made.
MultiIdle ==
    /\ calls = [c \in Calls |-> NoCall]
    /\ summaries = [c \in Calls |-> <<>>]

\* What the steps of a batch call leave alone.
outside == <<store_down, parserVars, multiVars>>

\* No parse is under way.
ParserIdle ==
    /\ text = <<>>
    /\ line_no = 1
    /\ current_suggestion = EmptyDict
    /\ suggestions = <<>>
    /\ parser_pc = "idle"

Units == 1..MaxUrls

Init ==
    /\ urls \in RequestValues
    /\ max_workers \in 1..MaxWorkers
    /\ mainpc = "validate"
    /\ futures = <<>>
    /\ work_queue = <<>>
    /\ num_threads = 0
    /\ idle_semaphore = 0
    /\ finished = {}
    /\ waiter_finished = <<>>
    /\ yielded = {}
    /\ results_summary = <<>>
    /\ store = <<>>
    /\ uuids = 0
    /\ response = NoResponse
    /\ done_order = <<>>
    /\ store_down = FALSE
    /\ ParserIdle
    /\ MultiIdle

\* The batch call with the Store possibly out of service.
OutageInit ==
    /\ urls \in RequestValues
    /\ max_workers \in 1..MaxWorkers
    /\ mainpc = "validate"
    /\ futures = <<>>
    /\ work_queue = <<>>
    /\ num_threads = 0
    /\ idle_semaphore = 0
    /\ finished = {}
    /\ waiter_finished = <<>>
    /\ yielded = {}
    /\ results_summary = <<>>
    /\ store = <<>>
    /\ uuids = 0
    /\ response = NoResponse
    /\ done_order = <<>>
    /\ store_down \in BOOLEAN
    /\ ParserIdle
    /\ MultiIdle

\* ----------------------------------------------------------------- actions
\* app.py:72-81: validation of the request.
Validate ==
    /\ mainpc = "validate"
    /\ IF InvalidInput(urls)
       THEN /\ mainpc' = "responded"
            /\ response' = [status |-> "error", code |-> "INVALID_INPUT",
                            http |-> 400, data |-> <<>>]
       ELSE /\ mainpc' = "submit"
            /\ UNCHANGED response
    /\ UNCHANGED <<urls, max_workers, futures, work_queue, num_threads,
                   idle_semaphore, finished, waiter_finished, yielded,
                   results_summary, store, uuids, done_order>>
    /\ UNCHANGED outside

\* app.py:140: executor.submit(process_url, url) for the next URL.
Submit ==
    /\ mainpc = "submit"
    /\ Len(futures) < Len(urls.items)
    /\ LET i == Len(futures) + 1
           a == AdjustThreadCount(num_threads, idle_semaphore, max_workers)
       IN /\ futures' = Append(futures, NewUnit(urls.items[i]))
          /\ work_queue' = Append(work_queue, i)
          /\ num_threads' = a.threads
          /\ idle_semaphore' = a.idle
    /\ UNCHANGED <<urls, max_workers, mainpc, finished, waiter_finished,
                   yielded, results_summary, store, uuids, response, done_order>>
    /\ UNCHANGED outside

\* A worker thread that runs no work item takes the oldest one and starts
\* process_url, which calls selenium_service.analyze_url (app.py:88).
WorkerTake ==
    /\ Cardinality(Running(futures)) < num_threads
    /\ work_queue # <<>>
    /\ futures' = [futures EXCEPT ![Head(work_queue)].st = "Scanning"]
    /\ work_queue' = Tail(work_queue)
    /\ UNCHANGED <<urls, max_workers, mainpc, num_threads, idle_semaphore,
                   finished, waiter_finished, yielded, results_summary,
                   store, uuids, response, done_order>>
    /\ UNCHANGED outside

\* The collaborator call Job Unit i waits for returns or raises, and
\* process_url runs on to its next collaborator call or to its end
\* (app.py:88-136); at the end the future is set, as_completed's waiter is
\* told and the worker thread counts itself idle.
CollaboratorReturns(i) ==
    /\ i \in Running(futures)
    /\ \E ok \in BOOLEAN :
         /\ (store_down /\ futures[i].st = "Persisting") => ~ok
         /\ LET old == futures[i]
                new == StepUnit(old, ok, uuids + 1, Len(store) + 1)
                ends == new.st = "Done"
            IN /\ futures' = [futures EXCEPT ![i] = new]
               /\ uuids' = IF new.unique_id # old.unique_id THEN uuids + 1 ELSE uuids
               /\ store' = IF new.ins > old.ins
                           THEN Append(store, [url |-> new.url,
                                               unique_id |-> new.unique_id,
                                               unit |-> i])
                           ELSE store
               /\ waiter_finished' = IF ends /\ mainpc = "collect"
                                     THEN Append(waiter_finished, i)
                                     ELSE waiter_finished
               /\ idle_semaphore' = IF ends THEN idle_semaphore + 1
                                    ELSE idle_semaphore
               /\ done_order' = IF ends THEN Append(done_order, i) ELSE done_order
    /\ UNCHANGED <<urls, max_workers, mainpc, work_queue, num_threads,
                   finished, yielded, results_summary, response>>
    /\ UNCHANGED outside

\* app.py:141: as_completed(futures) starts once every URL is submitted; it
\* notes the futures already finished and waits for the others.
AsCompletedStart ==
    /\ mainpc = "submit"
    /\ Len(futures) = Len(urls.items)
    /\ mainpc' = "collect"
    /\ finished' = {i \in 1..Len(futures) : futures[i].st = "Done"}
    /\ UNCHANGED <<urls, max_workers, futures, work_queue, num_threads,
                   idle_semaphore, waiter_finished, yielded, results_summary,
                   store, uuids, response, done_order>>
    /\ UNCHANGED outside

\* app.py:142-153: the body of the collecting loop for future i.
CollectOne(i) ==
    LET c == CollectFuture(futures[i].fut)
    IN /\ results_summary' = results_summary \o c.appended
       /\ yielded' = yielded \cup {i}
       /\ mainpc' = IF c.raised THEN "raising" ELSE mainpc

\* as_completed yields the futures found finished at its start (a set: in any
\* order), then the others in the order they finish.
Collect ==
    /\ mainpc = "collect"
    /\ \/ /\ \E i \in finished \ yielded : CollectOne(i)
          /\ UNCHANGED waiter_finished
       \/ /\ finished \subseteq yielded
          /\ waiter_finished # <<>>
          /\ CollectOne(WaiterPop(waiter_finished).next)
          /\ waiter_finished' = WaiterPop(waiter_finished).rest
    /\ UNCHANGED <<urls, max_workers, futures, work_queue, num_threads,
                   idle_semaphore, finished, store, uuids, response, done_order>>
    /\ UNCHANGED outside

\* app.py:156-160: the response, once the with block is left.
Respond ==
    /\ MayReturn(mainpc, futures, yielded)
    /\ mainpc' = "responded"
    /\ response' = IF mainpc = "raising"
                   THEN [status |-> "error", code |-> "INTERNAL_SERVER_ERROR",
                         http |-> 500, data |-> <<>>]
                   ELSE [status |-> "success", code |-> "none", http |-> 200,
                         data |-> results_summary]
    /\ UNCHANGED <<urls, max_workers, futures, work_queue, num_threads,
                   idle_semaphore, finished, waiter_finished, yielded,
                   results_summary, store, uuids, done_order>>
    /\ UNCHANGED outside

Next ==
    \/ Validate
    \/ Submit
    \/ AsCompletedStart
    \/ WorkerTake
    \/ \E i \in Units : CollaboratorReturns(i)
    \/ Collect
    \/ Respond

Spec == Init /\ [][Next]_vars

\* Every thread that can take a step eventually takes one: the handler's
\* thread and the worker threads; every collaborator call returns or fails.
Fairness ==
    /\ WF_vars(Validate)
    /\ WF_vars(Submit)
    /\ WF_vars(AsCompletedStart)
    /\ WF_vars(WorkerTake)
    /\ WF_vars(Collect)
    /\ WF_vars(Respond)
    /\ \A i \in Units : WF_vars(CollaboratorReturns(i))

FairSpec == Spec /\ Fairness

OutageSpec == OutageInit /\ [][Next]_vars

\* ------------------------------------------------- the parser as a machine
\* parse_suggestions_to_json is called with a text; no batch call runs.
ParserInit ==
    /\ urls = [tag |-> "none", items |-> <<>>]
    /\ max_workers = 1
    /\ mainpc = "idle"
    /\ futures = <<>>
    /\ work_queue = <<>>
    /\ num_threads = 0
    /\ idle_semaphore = 0
    /\ finished = {}
    /\ waiter_finished = <<>>
    /\ yielded = {}
    /\ results_summary = <<>>
    /\ store = <<>>
    /\ uuids = 0
    /\ response = NoResponse
    /\ done_order = <<>>
    /\ store_down = FALSE
    /\ text \in Texts
    /\ line_no = 1
    /\ current_suggestion = EmptyDict
    /\ suggestions = <<>>
    /\ parser_pc = "loop"
    /\ MultiIdle

\* openai_service.py:21-29: one iteration of `for line in lines`.
ParserStep ==
    /\ parser_pc = "loop"
    /\ line_no <= Len(text)
    /\ LET r == ParseLine(current_suggestion, suggestions, text[line_no])
       IN /\ current_suggestion' = r.cur
          /\ suggestions' = r.sug
    /\ line_no' = line_no + 1
    /\ UNCHANGED <<text, parser_pc, batchVars, multiVars>>

\* openai_service.py:31: return {"violations": suggestions}.
ParserReturn ==
    /\ parser_pc = "loop"
    /\ line_no > Len(text)
    /\ parser_pc' = "returned"
    /\ UNCHANGED <<text, line_no, current_suggestion, suggestions, batchVars,
                   multiVars>>

ParserNext == ParserStep \/ ParserReturn

ParserSpec == ParserInit /\ [][ParserNext]_vars

\* ------------------------------------------- concurrent calls as a machine
\* What the steps of the concurrent calls leave alone: the single call of
\* Spec, the cap, the Store's availability and the parser.
aside == <<urls, max_workers, mainpc, futures, work_queue, num_threads,
           idle_semaphore, finished, waiter_finished, yielded,
           results_summary, response, done_order, store_down, parserVars>>

\* Every call of Calls has passed validation with a list of 1..MaxUrls URLs
\* and is about to submit them; the Store and the uuid source are the
\* process's own and serve all the calls.
MultiInit ==
    /\ urls = [tag |-> "none", items |-> <<>>]
    /\ max_workers \in 1..MaxWorkers
    /\ mainpc = "idle"
    /\ futures = <<>>
    /\ work_queue = <<>>
    /\ num_threads = 0
    /\ idle_semaphore = 0
    /\ finished = {}
    /\ waiter_finished = <<>>
    /\ yielded = {}
    /\ results_summary = <<>>
    /\ store = <<>>
    /\ uuids = 0
    /\ response = NoResponse
    /\ done_order = <<>>
    /\ store_down = FALSE
    /\ ParserIdle
    /\ calls \in [Calls -> {[NoCall EXCEPT !.pc = "submit", !.urls = UrlList(n)]
                              : n \in 1..MaxUrls}]
    /\ summaries = [c \in Calls |-> <<>>]

\* app.py:139-140 in call c: executor.submit(process_url, url) for its next
\* URL, on the executor the call made for itself with the configured cap.
CallSubmit(c) ==
    /\ calls[c].pc = "submit"
    /\ Len(calls[c].futures) < Len(calls[c].urls)
    /\ LET i == Len(calls[c].futures) + 1
           a == AdjustThreadCount(calls[c].num_threads, calls[c].idle_semaphore,
                                  max_workers)
       IN calls' = [calls EXCEPT
                      ![c].futures = Append(@, NewUnit(calls[c].urls[i])),
                      ![c].work_queue = Append(@, i),
                      ![c].num_threads = a.threads,
                      ![c].idle_semaphore = a.idle]
    /\ UNCHANGED <<summaries, store, uuids, aside>>

\* A worker thread of call c's executor takes its oldest work item.
CallWorkerTake(c) ==
    /\ Cardinality(Running(calls[c].futures)) < calls[c].num_threads
    /\ calls[c].work_queue # <<>>
    /\ calls' = [calls EXCEPT
                   ![c].futures[Head(calls[c].work_queue)].st = "Scanning",
                   ![c].work_queue = Tail(@)]
    /\ UNCHANGED <<summaries, store, uuids, aside>>

\* The collaborator call that Job Unit i of call c waits for returns or
\* raises (app.py:88-136).
CallCollaboratorReturns(c, i) ==
    /\ i \in Running(calls[c].futures)
    /\ \E ok \in BOOLEAN :
         LET old == calls[c].futures[i]
             new == StepUnit(old, ok, TokenOf(c, i), Len(store) + 1)
         IN /\ calls' = [calls EXCEPT
                           ![c].futures[i] = new,
                           ![c].idle_semaphore =
                               IF new.st = "Done" THEN @ + 1 ELSE @]
            /\ uuids' = IF new.unique_id # old.unique_id THEN uuids + 1 ELSE uuids
            /\ store' = IF new.ins > old.ins
                        THEN Append(store, [url |-> new.url,
                                            unique_id |-> new.unique_id,
                                            unit |-> i])
                        ELSE store
    /\ UNCHANGED <<summaries, aside>>

\* app.py:141 in call c: as_completed(futures) starts.
CallAsCompletedStart(c) ==
    /\ calls[c].pc = "submit"
    /\ Len(calls[c].futures) = Len(calls[c].urls)
    /\ calls' = [calls EXCEPT ![c].pc = "collect"]
    /\ UNCHANGED <<summaries, store, uuids, aside>>

\* app.py:142-153 in call c: the collecting loop takes a finished future and
\* appends its outcome to the call's summary (the order among the finished
\* futures is left open here). An entry is kept with the call whose unit it
\* is the outcome of.
CallCollect(c) ==
    /\ calls[c].pc = "collect"
    /\ \E i \in 1..Len(calls[c].futures) :
         /\ calls[c].futures[i].st = "Done"
         /\ i \notin calls[c].yielded
         /\ LET r == CollectFuture(calls[c].futures[i].fut)
            IN /\ summaries' = [summaries EXCEPT ![SummaryOf(c)] =
                     @ \o [k \in 1..Len(r.appended) |->
                             [call |-> c, entry |-> r.appended[k]]]]
               /\ calls' = [calls EXCEPT
                              ![c].yielded = @ \cup {i},
                              ![c].pc = IF r.raised THEN "raising" ELSE @]
    /\ UNCHANGED <<store, uuids, aside>>

\* app.py:156-160 in call c: the response carries the call's summary.
CallRespond(c) ==
    /\ MayReturn(calls[c].pc, calls[c].futures, calls[c].yielded)
    /\ calls' = [calls EXCEPT
                   ![c].pc = "responded",
                   ![c].response =
                       IF calls[c].pc = "raising"
                       THEN [status |-> "error", code |-> "INTERNAL_SERVER_ERROR",
                             http |-> 500, data |-> <<>>]
                       ELSE [status |-> "success", code |-> "none", http |-> 200,
                             data |-> summaries[SummaryOf(c)]]]
    /\ UNCHANGED <<summaries, store, uuids, aside>>

MultiNext ==
    \E c \in Calls :
        \/ CallSubmit(c)
        \/ CallWorkerTake(c)
        \/ \E i \in Units : CallCollaboratorReturns(c, i)
        \/ CallAsCompletedStart(c)
        \/ CallCollect(c)
        \/ CallRespond(c)

MultiSpec == MultiInit /\ [][MultiNext]_vars

\* ------------------------------------------------------------ claim helpers
Responded == mainpc = "responded"

\* The request carries a non-empty list of URLs.
NonEmptyList == urls.tag = "list" /\ Len(urls.items) > 0

\* The request's urls value is absent, not a list, or an empty list.
BadUrls == urls.tag = "none" \/ urls.tag # "list" \/ Len(urls.items) = 0

Submitted == 1..Len(futures)

\* Entries of a summary: a failure carries an error code, a success the
\* unique id of its record.
IsFailureEntry(e) == "code" \in DOMAIN e
IsSuccessEntry(e) == "unique_id" \in DOMAIN e /\ "code" \notin DOMAIN e
HasUrl(e) == "url" \in DOMAIN e

FailureKinds == {"ANALYSIS_ERROR", "DB_ERROR", "UNEXPECTED_ERROR"}

\* An error was raised inside process_url for unit i.
ErrorRaised(i) ==
    \/ futures[i].scan = "fail"
    \/ futures[i].adv = "call_error"
    \/ futures[i].sto = "fail"

\* The Advisor step of unit i did not yield a SuggestionSet: the OpenAI call
\* failed, or the call of generate_suggestions itself failed.
AdvisorFailed(i) == futures[i].adv \in {"fail", "call_error"}

Positions(seq) == 1..Len(seq)

\* ------------------------------------------------------------------ claims
\* C1: for a non-empty list of URLs the returned summary has exactly as many
\* outcomes as the list has URLs, duplicates counted, whatever the
\* collaborators did and however the workers interleaved.
C1_CardinalityPreserved ==
    (Responded /\ NonEmptyList) => Len(response.data) = Len(urls.items)

\* C1 witness: a batch of three URLs with a duplicate, one Scanner success
\* and one Scanner failure, was answered.
C1_Witness ==
    /\ Responded
    /\ Len(urls.items) = 3
    /\ urls.items[1] = urls.items[3]
    /\ \E i, j \in Submitted : futures[i].scan = "ok" /\ futures[j].scan = "fail"
    /\ Len(response.data) = 3

\* C2: when Scanner fails for A and succeeds for B in one batch (Advisor and
\* Store not failing), the summary holds a Success for B and a Failure of
\* kind ANALYSIS_ERROR for A, whatever the order.
C2_FailureIsolation ==
    (Responded /\ NonEmptyList) =>
        \A a, b \in Submitted :
            ( /\ futures[a].scan = "fail"
              /\ futures[b].scan = "ok"
              /\ futures[b].adv # "fail"
              /\ futures[b].sto # "fail" )
            => /\ \E k \in Positions(response.data) :
                    /\ IsSuccessEntry(response.data[k])
                    /\ response.data[k].url = futures[b].url
               /\ \E k \in Positions(response.data) :
                    /\ IsFailureEntry(response.data[k])
                    /\ response.data[k].code = "ANALYSIS_ERROR"
                    /\ HasUrl(response.data[k])
                    /\ response.data[k].url = futures[a].url

\* C3: every outcome of the summary carries a url, and the multiset of these
\* urls is the multiset of the input URLs.
C3_EveryUrlOnce ==
    (Responded /\ NonEmptyList) =>
        /\ \A k \in Positions(response.data) : HasUrl(response.data[k])
        /\ \A x \in Urls :
             Cardinality({k \in Positions(response.data) :
                             HasUrl(response.data[k]) /\ response.data[k].url = x})
               = Cardinality({i \in Positions(urls.items) : urls.items[i] = x})

\* C4: process_url never lets an error escape: a unit in which an error was
\* raised returns a Failure carrying its url and a kind among ANALYSIS_ERROR,
\* DB_ERROR, UNEXPECTED_ERROR, and an error that is neither Scanner's nor
\* Store's is reported as UNEXPECTED_ERROR.
C4_NoEscape ==
    \A i \in Submitted :
        futures[i].st = "Done" =>
            /\ futures[i].fut.kind = "return"
            /\ ErrorRaised(i) =>
                 /\ IsFailureEntry(futures[i].fut.value)
                 /\ futures[i].fut.value.url = futures[i].url
                 /\ futures[i].fut.value.code \in FailureKinds
            /\ futures[i].adv = "call_error" =>
                 futures[i].fut.value.code = "UNEXPECTED_ERROR"

\* C5: when urls is absent, not a list or an empty list, the call fails with
\* INVALID_INPUT and nothing is scheduled: no Job Unit is submitted, no
\* worker thread is started, no collaborator is called.
C5_InvalidInputRejected ==
    BadUrls =>
        /\ mainpc \in {"validate", "responded"}
        /\ Responded => (response.code = "INVALID_INPUT" /\ response.http = 400)
        /\ futures = <<>>
        /\ work_queue = <<>>
        /\ num_threads = 0
        /\ store = <<>>

\* C5 witness: the request with an empty list was answered.
C5_Witness ==
    /\ urls.tag = "list"
    /\ urls.items = <<>>
    /\ Responded
    /\ response.code = "INVALID_INPUT"

\* C6: when Scanner succeeds for a URL and the Advisor fails for it, the
\* Store insertion is still made and the outcome is a Success with an empty
\* SuggestionSet.
C6_AdvisorFailureNotFatal ==
    \A i \in Submitted :
        (futures[i].st = "Done" /\ futures[i].scan = "ok" /\ AdvisorFailed(i)
           /\ futures[i].sto # "fail")
        => /\ futures[i].ins = 1
           /\ futures[i].fut.kind = "return"
           /\ IsSuccessEntry(futures[i].fut.value)
           /\ futures[i].fut.value.suggestions.kind # "violations"

\* C7: at every moment of a batch call the number of Job Units in Scanning,
\* Advising or Persisting is at most the configured cap.
C7_CapRespected == Cardinality(Running(futures)) <= max_workers

\* C7 witness: as many units run as the cap allows while another URL waits
\* in the queue.
C7_Witness ==
    /\ Cardinality(Running(futures)) = max_workers
    /\ work_queue # <<>>
    /\ Len(urls.items) > max_workers

\* What C8 says of the moment of the response: every URL was submitted and
\* every Job Unit is in a terminal state, none queued or running.
AllTerminalAtResponse ==
    (Responded /\ NonEmptyList) =>
        /\ Len(futures) = Len(urls.items)
        /\ work_queue = <<>>
        /\ \A i \in Submitted : futures[i].st = "Done"

\* C8: the batch returns only after every submitted Job Unit reached a
\* terminal outcome, and, every collaborator call returning or failing, it
\* does return.
C8_WaitsForAll == []AllTerminalAtResponse /\ <>Responded

\* C8 witness: a batch was answered although its first finished unit had a
\* Scanner failure and another a Scanner success.
C8_Witness ==
    /\ Responded
    /\ Len(urls.items) >= 2
    /\ \A i \in Submitted : futures[i].st = "Done"
    /\ futures[1].scan = "fail"
    /\ \E j \in Submitted : futures[j].scan = "ok"

\* C9: for a non-empty batch no per-URL error leaves the batch call: it
\* answers with status success and a complete summary, and the units in
\* which an error was raised are matched by as many failure entries.
C9_ErrorsContained ==
    (Responded /\ NonEmptyList) =>
        /\ response.status = "success"
        /\ response.http = 200
        /\ Len(response.data) = Len(urls.items)
        /\ Cardinality({k \in Positions(response.data) :
                           IsFailureEntry(response.data[k])})
             = Cardinality({i \in Submitted : ErrorRaised(i)})

\* C9 witness: a batch in which every Scanner call failed was answered with
\* status success.
C9_Witness ==
    /\ Responded
    /\ Len(urls.items) >= 2
    /\ \A i \in Submitted : futures[i].scan = "fail"
    /\ response.status = "success"

CompletedBefore(x, y) ==
    \E a, b \in Positions(done_order) :
        a < b /\ done_order[a] = x /\ done_order[b] = y

\* The unit whose outcome this step appends to the summary, if any.
JustCollected == yielded' \ yielded

\* C11: outcomes are appended in completion order: when the outcome of a
\* unit is appended, the outcome of every unit that completed strictly
\* before it is already in the summary, whenever the collector started.
C11_CompletionOrder ==
    [][\A y \in JustCollected : \A x \in Submitted :
          CompletedBefore(x, y) => x \in yielded]_vars

\* C11 as amended: the units found finished when the collector starts come
\* first, in any order among themselves; the outcome of a unit that
\* completes later is appended after those of all units completed before it.
C11_CompletionOrderAfterStart ==
    [][\A y \in JustCollected : \A x \in Submitted :
          CompletedBefore(x, y) =>
              (x \in yielded \/ (x \in finished /\ y \in finished))]_vars

\* C11 witness: a batch of three was answered, of which one unit had finished
\* when the collector started and two finished later.
C11_Witness ==
    /\ Responded
    /\ Len(futures) = 3
    /\ Cardinality(finished) = 1
    /\ Len(done_order) = 3

\* C12: when Scanner and Advisor succeed for a URL and the Store insertion
\* fails for it, the outcome of that URL is a Failure carrying the url and
\* the kind DB_ERROR.
C12_StoreFailureIsDbError ==
    \A i \in Submitted :
        ( /\ futures[i].st = "Done"
          /\ futures[i].scan = "ok"
          /\ futures[i].adv # "fail"
          /\ store_down )
        => /\ futures[i].fut.kind = "return"
           /\ IsFailureEntry(futures[i].fut.value)
           /\ futures[i].fut.value.url = futures[i].url
           /\ futures[i].fut.value.code = "DB_ERROR"

\* No collaborator failed for unit i.
NoCollaboratorFailed(i) ==
    /\ futures[i].scan = "ok"
    /\ futures[i].adv # "fail"
    /\ futures[i].sto # "fail"

\* C13: when the same URL occurs twice in a batch and every collaborator
\* succeeds, the summary holds two Success outcomes for it with distinct
\* unique ids, and the Store received two insertions for it.
C13_DuplicateUrlTwoRecords ==
    (Responded /\ NonEmptyList /\ ~store_down) =>
        \A i, j \in Submitted :
            ( /\ i < j
              /\ futures[i].url = futures[j].url
              /\ NoCollaboratorFailed(i)
              /\ NoCollaboratorFailed(j) )
            => /\ \E k, l \in Positions(response.data) :
                    /\ k # l
                    /\ IsSuccessEntry(response.data[k])
                    /\ IsSuccessEntry(response.data[l])
                    /\ response.data[k].url = futures[i].url
                    /\ response.data[l].url = futures[i].url
                    /\ response.data[k].unique_id # response.data[l].unique_id
               /\ Cardinality({p \in Positions(store) :
                                  store[p].url = futures[i].url}) >= 2

\* ------------------------------------------------------------ parser claims
ParserReturned == parser_pc = "returned"

\* The text s without its leading and trailing blanks.
TrimmedText(s) ==
    LET solid == {k \in 1..Len(s) : s[k] # " "}
    IN IF solid = {} THEN <<>>
       ELSE SubSeq(s, CHOOSE a \in solid : \A b \in solid : a <= b,
                      CHOOSE a \in solid : \A b \in solid : a >= b)

\* The token t occurs in s.
Occurs(t, s) == \E k \in 1..Len(s) : s[k] = t

\* The text has exactly three lines that begin with h1, h2, h3 in this
\* order, and no text after these beginnings contains a token of avoid.
ThreeLines(h1, h2, h3, avoid) ==
    /\ Len(text) = 3
    /\ StartsWith(text[1], h1)
    /\ StartsWith(text[2], h2)
    /\ StartsWith(text[3], h3)
    /\ \A k \in 1..3 : \A t \in avoid[k] : ~Occurs(t, Tail(text[k]))

\* The parse gave exactly one entry, with the three fields x, y, z.
OneEntry(x, y, z) ==
    /\ Len(suggestions) = 1
    /\ DOMAIN suggestions[1] = {"problema", "solucion", "ejemplo_codigo"}
    /\ suggestions[1].problema = x
    /\ suggestions[1].solucion = y
    /\ suggestions[1].ejemplo_codigo = z

\* C14: parsing the three lines `Problem: X`, `Solution: Y`,
\* `Ejemplo de Código: Z` (X, Y, Z without tags) yields exactly one entry
\* whose problem is X, solution Y and code example Z, each trimmed.
C14_RoundTrip ==
    ( /\ ParserReturned
      /\ ThreeLines("Problem:", "Solution:", EjemploTag,
                    [k \in 1..3 |-> ParserTags \cup EnglishTags]) )
    => OneEntry(TrimmedText(Tail(text[1])), TrimmedText(Tail(text[2])),
                TrimmedText(Tail(text[3])))

\* C14 as amended: parsing the three lines `Problema: X`, `Solución: Y`,
\* `Ejemplo de Código: Z`, none of X, Y, Z containing the tag of its own
\* line, yields exactly one entry with problema X, solucion Y and
\* ejemplo_codigo Z, each trimmed.
C14_RoundTripSpanishTags ==
    ( /\ ParserReturned
      /\ ThreeLines(ProblemaTag, SolucionTag, EjemploTag,
                    <<{ProblemaTag}, {SolucionTag}, {EjemploTag}>>) )
    => OneEntry(TrimmedText(Tail(text[1])), TrimmedText(Tail(text[2])),
                TrimmedText(Tail(text[3])))

\* C14 witness: the parse of a triple with blanks around X and Z and another
\* line's tag inside Y has returned.
C14_Witness ==
    /\ ParserReturned
    /\ text = << <<ProblemaTag, " ", "x", " ">>,
                 <<SolucionTag, "y", ProblemaTag>>,
                 <<EjemploTag, " ", "x", " ">> >>
    /\ Len(suggestions) = 1

\* The lines read so far, and among the lines of t those that close an entry.
LinesRead == SubSeq(text, 1, line_no - 1)
CodeLines(t) == {k \in 1..Len(t) : StartsWith(t[k], EjemploTag)}

\* The position in t of its k-th Code Example line, and the lines of the
\* entry it closes: those after the previous Code Example line.
CodeLinePos(t, k) ==
    CHOOSE p \in CodeLines(t) : Cardinality({q \in CodeLines(t) : q <= p}) = k
BlockOf(t, k) ==
    (IF k = 1 THEN 1 ELSE CodeLinePos(t, k - 1) + 1) .. (CodeLinePos(t, k) - 1)
BlockHas(t, k, tag) == \E q \in BlockOf(t, k) : StartsWith(t[q], tag)

\* C16: an entry closed by a Code Example line without a Problem or Solution
\* line is still appended, and each missing field is in the entry with the
\* empty string as its value.
C16_MissingFieldsEmpty ==
    ParserReturned =>
        /\ Len(suggestions) = Cardinality(CodeLines(text))
        /\ \A k \in Positions(suggestions) :
             /\ ~BlockHas(text, k, ProblemaTag) =>
                  /\ "problema" \in DOMAIN suggestions[k]
                  /\ suggestions[k].problema = <<>>
             /\ ~BlockHas(text, k, SolucionTag) =>
                  /\ "solucion" \in DOMAIN suggestions[k]
                  /\ suggestions[k].solucion = <<>>

\* C16 as amended: the entry is still appended, and a missing field is
\* absent from it: the entry has a problema (solucion) key exactly when a
\* Problema (Solución) line came since the previous Code Example line.
C16_MissingFieldsAbsent ==
    ParserReturned =>
        /\ Len(suggestions) = Cardinality(CodeLines(text))
        /\ \A k \in Positions(suggestions) :
             /\ "ejemplo_codigo" \in DOMAIN suggestions[k]
             /\ "problema" \in DOMAIN suggestions[k]
                  <=> BlockHas(text, k, ProblemaTag)
             /\ "solucion" \in DOMAIN suggestions[k]
                  <=> BlockHas(text, k, SolucionTag)

\* C16 witness: a text whose first line is a Code Example line was parsed
\* and its first entry has neither problema nor solucion.
C16_Witness ==
    /\ ParserReturned
    /\ StartsWith(text[1], EjemploTag)
    /\ Len(suggestions) >= 1
    /\ DOMAIN suggestions[1] = {"ejemplo_codigo"}

\* A line that begins with one of the three tags.
Tagged(line) == \E t \in ParserTags : StartsWith(line, t)

\* The line without the occurrences of token t.
WithoutToken(line, t) ==
    LET keep == {k \in 1..Len(line) : line[k] # t}
        nth(n) == CHOOSE k \in keep : Cardinality({j \in keep : j <= k}) = n
    IN [n \in 1..Cardinality(keep) |-> line[nth(n)]]

\* C17: the emitted entries are as many as the Code Example lines read, the
\* k-th entry carries the text of the k-th Code Example line, lines without
\* tag change nothing, and Problema or Solución lines after the last Code
\* Example line produce no entry.
C17_EntriesAreCodeLines ==
    /\ Len(suggestions) = Cardinality(CodeLines(LinesRead))
    /\ \A k \in Positions(suggestions) :
         suggestions[k].ejemplo_codigo
           = TrimmedText(WithoutToken(text[CodeLinePos(LinesRead, k)], EjemploTag))
    /\ suggestions = ParseSuggestions(SelectSeq(LinesRead, Tagged))

\* C17 witness: a text made of a Code Example line, a line without tag and a
\* trailing Problema line was parsed into one entry.
C17_Witness ==
    /\ ParserReturned
    /\ Len(text) = 3
    /\ StartsWith(text[1], EjemploTag)
    /\ ~Tagged(text[2])
    /\ StartsWith(text[3], ProblemaTag)
    /\ Len(suggestions) = 1

\* ------------------------------------------------------- Job Unit order
\* The moves of a Job Unit from one step to the next.
UnitMoves ==
    { <<"Pending", "Scanning">>, <<"Scanning", "Advising">>,
      <<"Scanning", "Done">>, <<"Advising", "Persisting">>,
      <<"Persisting", "Done">> }

\* What has happened before each step of unit u.
UnitInOrder(u) ==
    /\ u.st \in {"Pending", "Scanning"} =>
         u.scan = "none" /\ u.adv = "none" /\ u.sto = "none"
    /\ u.st = "Advising" => u.scan = "ok" /\ u.adv = "none" /\ u.sto = "none"
    /\ u.st = "Persisting" =>
         u.scan = "ok" /\ u.adv \in {"ok", "fail"} /\ u.sto = "none"
    /\ u.sto # "none" => u.adv \in {"ok", "fail"}
    /\ u.adv # "none" => u.scan = "ok"
    /\ u.ins <= 1
    /\ u.st = "Done" <=> u.fut # NoFuture

Escaped(i) == futures[i].fut.kind = "raise"

\* The entry the collector writes for an error that left process_url.
IsEscapeEntry(e) ==
    /\ "code" \in DOMAIN e
    /\ e.code = "PROCESSING_ERROR"
    /\ ~HasUrl(e)

\* C18: when the error of a unit leaves process_url, the collector appends
\* exactly one entry for its future, with code PROCESSING_ERROR and no url,
\* and goes on collecting; the batch is answered with status success and
\* has as many such entries as there were escaped errors.
C18_EscapedErrorCollected ==
    /\ [][\A i \in JustCollected :
            Escaped(i) =>
              /\ Len(results_summary') = Len(results_summary) + 1
              /\ SubSeq(results_summary', 1, Len(results_summary))
                   = results_summary
              /\ IsEscapeEntry(results_summary'[Len(results_summary')])
              /\ mainpc' = "collect"]_vars
    /\ []((Responded /\ NonEmptyList) =>
            /\ response.status = "success"
            /\ Cardinality({k \in Positions(response.data) :
                               IsEscapeEntry(response.data[k])})
                 = Cardinality({i \in Submitted : Escaped(i)}))

\* C18 witness: the lookup of a handler's exception class failed while a
\* Scanner error was being handled, and the batch of several URLs was still
\* answered, holding the entry of that unit.
C18_Witness ==
    /\ Responded
    /\ Len(urls.items) >= 2
    /\ \E i \in Submitted :
         /\ futures[i].scan = "fail"
         /\ futures[i].fut = Raised("AttributeError")
    /\ response.status = "success"
    /\ \E k \in Positions(response.data) : IsEscapeEntry(response.data[k])

\* ------------------------------------------------------ concurrent calls
\* The Job Units of call c that a worker thread is running.
InFlight(c) == Running(calls[c].futures)

RECURSIVE TotalInFlight(_)
TotalInFlight(cs) ==
    IF cs = {} THEN 0
    ELSE LET c == CHOOSE x \in cs : TRUE
         IN Cardinality(InFlight(c)) + TotalInFlight(cs \ {c})

\* C19: with the calls of Calls running at the same time, each call keeps at
\* most max_workers Job Units in flight, its summary holds only outcomes of
\* its own units, one per unit collected, its response carries one entry per
\* URL of its own, and the units in flight over all the calls are at most
\* max_workers per call.
C19_CapAndSummaryPerCall ==
    /\ \A c \in Calls :
         /\ Cardinality(InFlight(c)) <= max_workers
         /\ calls[c].num_threads <= max_workers
         /\ \A k \in Positions(summaries[c]) : summaries[c][k].call = c
         /\ Len(summaries[c]) = Cardinality(calls[c].yielded)
         /\ calls[c].pc = "responded" =>
              /\ Len(calls[c].response.data) = Len(calls[c].urls)
              /\ \A k \in Positions(calls[c].response.data) :
                   calls[c].response.data[k].call = c
    /\ TotalInFlight(Calls) <= Cardinality(Calls) * max_workers

\* C19 witness: every call has max_workers units in flight at the same
\* time, more in total than the cap, while one call has already collected
\* an outcome.
C19_Witness ==
    /\ \A c \in Calls : Cardinality(InFlight(c)) = max_workers
    /\ TotalInFlight(Calls) > max_workers
    /\ TotalInFlight(Calls) = Cardinality(Calls) * max_workers

====
